---- MODULE Spec2Model ----
(***************************************************************************)
(* Model of restoprofit2: the menu database (database.py), the requests    *)
(* that fill it (app.py) and the analysis engines (analysis_engine.py).    *)
(*                                                                         *)
(* Numbers are exact rationals <<n, d>> (d > 0, lowest terms) standing for *)
(* the Python floats; None is the empty tuple <<>>.  A DataFrame is a      *)
(* record of its column names and its rows; reading a column that the      *)
(* frame does not have raises KeyError, as in pandas.                      *)
(*                                                                         *)
(* Spec and AnalizSpec serve one request at a time: sonuc is the response  *)
(* of the last analysis request.  EsZamanliSpec serves requests on several *)
(* workers at once: cagrilar holds, per worker, the analysis call it is in *)
(* the middle of.  YonetimSpec serves the management requests of app.py    *)
(* one at a time; YarisSpec serves the recipe and ingredient requests on   *)
(* several workers at once, each request as the steps between which the    *)
(* database lets another request in: istekler holds, per worker, the       *)
(* request it is in the middle of.                                         *)
(***************************************************************************)
EXTENDS Integers, Sequences, FiniteSets, Bags, TLC

VARIABLES hammaddeler, urunler, receteler, satis_kayitlari, sonuc, cagrilar,
          istekler

vars == <<hammaddeler, urunler, receteler, satis_kayitlari, sonuc, cagrilar,
          istekler>>

----------------------------------------------------------------------------
(* Bounds of the model *)

\* most rows the sales table holds
MaxSatis == 3
\* most rows of one uploaded file
MaxDosyaSatiri == 2

----------------------------------------------------------------------------
(* Exact arithmetic on rationals *)

None == <<>>

Abs(n) == IF n < 0 THEN -n ELSE n

RECURSIVE GCD(_, _)
GCD(a, b) == IF b = 0 THEN a ELSE GCD(b, a % b)

Rat(n, d) ==
    LET s == IF d < 0 THEN -1 ELSE 1
        g == GCD(Abs(n), Abs(d))
    IN  <<(s * n) \div g, (s * d) \div g>>

R(n) == <<n, 1>>

RAdd(a, b) == Rat(a[1] * b[2] + b[1] * a[2], a[2] * b[2])
RSub(a, b) == Rat(a[1] * b[2] - b[1] * a[2], a[2] * b[2])
RMul(a, b) == Rat(a[1] * b[1], a[2] * b[2])
RDiv(a, b) == Rat(a[1] * b[2], a[2] * b[1])
RLt(a, b) == a[1] * b[2] < b[1] * a[2]
RLe(a, b) == a[1] * b[2] <= b[1] * a[2]
RMax(a, b) == IF RLt(a, b) THEN b ELSE a
RFloor(a) == a[1] \div a[2]
\* ceil for the length of np.arange
RCeil(a) == -((-a[1]) \div a[2])

\* x rounded to a multiple of 1/birim, ties to even
RoundTo(x, birim) ==
    LET y == RMul(x, R(birim))
        f == RFloor(y)
        r == RSub(y, R(f))
        k == IF RLt(r, <<1, 2>>) THEN f
             ELSE IF RLt(<<1, 2>>, r) THEN f + 1
             ELSE IF f % 2 = 0 THEN f ELSE f + 1
    IN  Rat(k, birim)

\* round(x, 2) and the ".2f" format
Round2(x) == RoundTo(x, 100)
\* the ".1f" format
Fmt1(x) == RoundTo(x, 10)
\* the ".0f" format
Fmt0(x) == RoundTo(x, 1)

RECURSIVE RSum(_)
RSum(s) == IF s = <<>> THEN R(0) ELSE RAdd(Head(s), RSum(Tail(s)))

\* Series.mean()
RMean(s) == RDiv(RSum(s), R(Len(s)))

RECURSIVE RMinOf(_)
RMinOf(s) ==
    IF Len(s) = 1 THEN s[1]
    ELSE LET m == RMinOf(Tail(s)) IN IF RLe(s[1], m) THEN s[1] ELSE m

RECURSIVE RMaxOf(_)
RMaxOf(s) ==
    IF Len(s) = 1 THEN s[1]
    ELSE LET m == RMaxOf(Tail(s)) IN IF RLe(m, s[1]) THEN s[1] ELSE m

\* the elements of a finite set of rationals in ascending order
RECURSIVE SortAsc(_)
SortAsc(S) ==
    IF S = {} THEN <<>>
    ELSE LET m == CHOOSE x \in S : \A y \in S : RLe(x, y)
         IN  <<m>> \o SortAsc(S \ {m})

----------------------------------------------------------------------------
(* The database: database.py *)

\* next value of an autoincrement primary key
NextId(tablo) ==
    IF tablo = {} THEN 1
    ELSE (CHOOSE i \in {t.id : t \in tablo} : \A t \in tablo : t.id <= i) + 1

\* Hammadde(isim unique, maliyet_fiyati)
Hammadde(id, isim, fiyat) == [id |-> id, isim |-> isim, maliyet_fiyati |-> fiyat]

\* Urun(isim unique, excel_adi unique, mevcut_satis_fiyati, hesaplanan_maliyet,
\* kategori, kategori_grubu)
Urun(id, isim, excel_adi, fiyat, maliyet, kategori, kategori_grubu) ==
    [id |-> id, isim |-> isim, excel_adi |-> excel_adi,
     mevcut_satis_fiyati |-> fiyat, hesaplanan_maliyet |-> maliyet,
     kategori |-> kategori, kategori_grubu |-> kategori_grubu]

\* Recete(urun_id, hammadde_id, miktar)
Recete(id, urun_id, hammadde_id, miktar) ==
    [id |-> id, urun_id |-> urun_id, hammadde_id |-> hammadde_id, miktar |-> miktar]

\* SatisKaydi; the table is a bag of rows (the row id plays no part)
SatisKaydi(urun_id, tarih, adet, toplam_tutar, birim_fiyat, maliyet, kar) ==
    [urun_id |-> urun_id, tarih |-> tarih, adet |-> adet,
     toplam_tutar |-> toplam_tutar, hesaplanan_birim_fiyat |-> birim_fiyat,
     hesaplanan_maliyet |-> maliyet, hesaplanan_kar |-> kar]

\* a timestamp is <<day, time of day>>; its calendar date is the day
Takvim(tarih) == tarih[1]

\* sum over the recipe lines of one item of miktar * ingredient price
RECURSIVE ReceteToplami(_, _)
ReceteToplami(kalemler, hams) ==
    IF kalemler = {} THEN R(0)
    ELSE LET k == CHOOSE x \in kalemler : TRUE
             h == {x \in hams : x.id = k.hammadde_id}
             pay == IF h = {} THEN R(0)
                    ELSE RMul(k.miktar, (CHOOSE x \in h : TRUE).maliyet_fiyati)
         IN  RAdd(pay, ReceteToplami(kalemler \ {k}, hams))

\* guncelle_tum_urun_maliyetleri: the items with their costs recomputed
GuncelleTumUrunMaliyetleri(uruns, recs, hams) ==
    { [u EXCEPT !.hesaplanan_maliyet =
          Round2(ReceteToplami({k \in recs : k.urun_id = u.id}, hams))] : u \in uruns }

----------------------------------------------------------------------------
(* Inputs of the requests *)

UrunIsimleri == {"Burger"}
\* a name no item has
BilinmeyenIsim == "Yok"
UrunFiyatlari == {R(22)}
Kategoriler == {"Burgerler"}
KategoriGruplari == {"Yemekler"}
HammaddeIsimleri == {"Kiyma"}
HammaddeFiyatlari == {R(5), R(20)}
Miktarlar == {R(2)}

\* rows of an Excel file: Urun_Adi, Adet, Toplam_Tutar, Tarih; bozuk marks a
\* row whose fields do not parse
ExcelSatiri(ad, adet, tutar, tarih, bozuk) ==
    [Urun_Adi |-> ad, Adet |-> adet, Toplam_Tutar |-> tutar, Tarih |-> tarih,
     bozuk |-> bozuk]

ExcelSatirlari ==
    { ExcelSatiri("Burger", 10, R(200), <<1, 0>>, FALSE),
      ExcelSatiri("Burger", 10, R(200), <<1, 1>>, FALSE),
      ExcelSatiri("Burger", 7, R(175), <<1, 0>>, FALSE),
      ExcelSatiri("Burger", 14, R(350), <<2, 0>>, FALSE),
      ExcelSatiri("Burger", 0, R(0), <<1, 0>>, FALSE),
      ExcelSatiri(BilinmeyenIsim, 10, R(200), <<1, 0>>, FALSE) }

Dosyalar == UNION { [1..n -> ExcelSatirlari] : n \in 1..MaxDosyaSatiri }

----------------------------------------------------------------------------
(* The result of an analysis call: (success, report, chart) and the call   *)

NoCall == [fn |-> "none", urun_ismi |-> "", arg |-> None,
           basari |-> FALSE, rapor |-> [tur |-> "none"], grafik |-> None]

Sonuc(fn, isim, arg, basari, rapor, grafik) ==
    [fn |-> fn, urun_ismi |-> isim, arg |-> arg,
     basari |-> basari, rapor |-> rapor, grafik |-> grafik]

----------------------------------------------------------------------------
(* The workers that serve requests, and the analysis call a worker is in   *)

Islemler == {"w1", "w2"}

\* a worker that is in no analysis call.  Of a call: pc is "urun_okundu"
\* between the item query and the sales query and "bitti" when the function
\* has returned; urun and satis are what the two queries have read; sonuc is
\* what the function has returned.  yazildi (a request has committed a
\* change between the two queries) and yaninda (the workers that were
\* between their queries when the call began) record the schedule.
Bosta == [pc |-> "bosta", fn |-> "none", urun_ismi |-> "", arg |-> None,
          urun |-> None, satis |-> EmptyBag, sonuc |-> NoCall,
          yazildi |-> FALSE, yaninda |-> {}]

\* a worker that is in no management request.  Of a request: fn is the
\* handler, arg its arguments, pc the step it has done last and okunan what
\* its last query has read
IstekYok == [pc |-> "bosta", fn |-> "none", arg |-> None, okunan |-> {}]

----------------------------------------------------------------------------
Init ==
    /\ hammaddeler = {}
    /\ urunler = {}
    /\ receteler = {}
    /\ satis_kayitlari = EmptyBag
    /\ sonuc = NoCall
    /\ cagrilar = [p \in Islemler |-> Bosta]
    /\ istekler = [p \in Islemler |-> IstekYok]

----------------------------------------------------------------------------
(* Requests of app.py that fill the database.  Each is one transaction;   *)
(* the response of an earlier analysis request is gone after it.           *)

\* add_product: a new item has cost 0; a taken name is an IntegrityError
AddProduct(isim, fiyat) ==
    /\ \E kategori \in Kategoriler, grup \in KategoriGruplari :
          urunler' =
             IF RLe(fiyat, R(0)) \/ \E u \in urunler : u.isim = isim \/ u.excel_adi = isim
             THEN urunler
             ELSE urunler \cup {Urun(NextId(urunler), isim, isim, fiyat, R(0),
                                     kategori, grup)}
    /\ sonuc' = NoCall
    /\ UNCHANGED <<hammaddeler, receteler, satis_kayitlari>>

\* add_material
AddMaterial(isim, fiyat) ==
    /\ hammaddeler' =
          IF RLt(fiyat, R(0)) \/ \E h \in hammaddeler : h.isim = isim
          THEN hammaddeler
          ELSE hammaddeler \cup {Hammadde(NextId(hammaddeler), isim, fiyat)}
    /\ sonuc' = NoCall
    /\ UNCHANGED <<urunler, receteler, satis_kayitlari>>

\* edit_material: new price, then every item cost is recomputed
EditMaterial(id, fiyat) ==
    /\ \E h \in hammaddeler : h.id = id
    /\ ~RLt(fiyat, R(0))
    /\ hammaddeler' = { IF h.id = id THEN [h EXCEPT !.maliyet_fiyati = fiyat] ELSE h
                        : h \in hammaddeler }
    /\ urunler' = GuncelleTumUrunMaliyetleri(urunler, receteler, hammaddeler')
    /\ sonuc' = NoCall
    /\ UNCHANGED <<receteler, satis_kayitlari>>

\* add_recipe: an existing (item, ingredient) line gets the new quantity, else
\* a line is inserted; then every item cost is recomputed
AddRecipe(urun_id, hammadde_id, miktar) ==
    /\ RLt(R(0), miktar)
    /\ receteler' =
          IF \E k \in receteler : k.urun_id = urun_id /\ k.hammadde_id = hammadde_id
          THEN LET e == CHOOSE k \in receteler :
                           /\ k.urun_id = urun_id /\ k.hammadde_id = hammadde_id
                           /\ \A j \in receteler :
                                 (j.urun_id = urun_id /\ j.hammadde_id = hammadde_id)
                                    => k.id <= j.id
               IN  (receteler \ {e}) \cup {[e EXCEPT !.miktar = miktar]}
          ELSE receteler \cup {Recete(NextId(receteler), urun_id, hammadde_id, miktar)}
    /\ urunler' = GuncelleTumUrunMaliyetleri(urunler, receteler', hammaddeler)
    /\ sonuc' = NoCall
    /\ UNCHANGED <<hammaddeler, satis_kayitlari>>

\* variant of the row handler below that stores the unit cost of the item
UploadSatirBirim(satir, uruns) ==
    LET es == {u \in uruns : u.excel_adi = satir.Urun_Adi}
    IN  IF satir.bozuk THEN <<>>
        ELSE IF es = {} THEN <<>>
        ELSE IF satir.Adet <= 0 THEN <<>>
        ELSE LET u == CHOOSE x \in es : TRUE
                 toplam_maliyet == RMul(u.hesaplanan_maliyet, R(satir.Adet))
             IN  <<SatisKaydi(u.id, satir.Tarih, satir.Adet, satir.Toplam_Tutar,
                              RDiv(satir.Toplam_Tutar, R(satir.Adet)),
                              u.hesaplanan_maliyet,
                              RSub(satir.Toplam_Tutar, toplam_maliyet))>>

\* upload_excel, one row: the record it yields, or no record (<<>>) when the
\* row is skipped
UploadSatir(satir, uruns) ==
    LET es == {u \in uruns : u.excel_adi = satir.Urun_Adi}
    IN  IF satir.bozuk THEN <<>>
        ELSE IF es = {} THEN <<>>
        ELSE IF satir.Adet <= 0 THEN <<>>
        ELSE LET u == CHOOSE x \in es : TRUE
                 o_anki_maliyet == IF u.hesaplanan_maliyet = None THEN R(0)
                                   ELSE u.hesaplanan_maliyet
                 toplam_maliyet == RMul(o_anki_maliyet, R(satir.Adet))
             IN  <<SatisKaydi(u.id, satir.Tarih, satir.Adet, satir.Toplam_Tutar,
                              RDiv(satir.Toplam_Tutar, R(satir.Adet)),
                              toplam_maliyet,
                              RSub(satir.Toplam_Tutar, toplam_maliyet))>>

\* variant of the loop below that gives up at the first row it skips
RECURSIVE YeniKayitlarDurur(_, _)
YeniKayitlarDurur(dosya, uruns) ==
    IF dosya = <<>> THEN EmptyBag
    ELSE LET k == UploadSatir(Head(dosya), uruns)
         IN  IF k = <<>> THEN EmptyBag
             ELSE SetToBag({k[1]}) (+) YeniKayitlarDurur(Tail(dosya), uruns)

\* the records of all rows of a file, as a bag
RECURSIVE YeniKayitlar(_, _)
YeniKayitlar(dosya, uruns) ==
    IF dosya = <<>> THEN EmptyBag
    ELSE LET k == UploadSatir(Head(dosya), uruns)
             rest == YeniKayitlar(Tail(dosya), uruns)
         IN  IF k = <<>> THEN rest ELSE SetToBag({k[1]}) (+) rest

\* upload_excel: every valid row of the file becomes a sales record
UploadExcel(dosya) ==
    LET yeni == YeniKayitlar(dosya, urunler)
    IN  /\ BagCardinality(satis_kayitlari) + BagCardinality(yeni) <= MaxSatis
        /\ satis_kayitlari' = satis_kayitlari (+) yeni
        /\ sonuc' = NoCall
        /\ UNCHANGED <<hammaddeler, urunler, receteler>>

\* the messages that upload_excel flashes: how many records it has stored,
\* the names it knows no item for, the sheet rows (index + 2) it could not
\* parse
UploadYaniti(dosya, uruns) ==
    LET islenen == BagCardinality(YeniKayitlar(dosya, uruns))
        taninmayan == {dosya[i].Urun_Adi : i \in
                         {j \in 1..Len(dosya) :
                             /\ ~dosya[j].bozuk
                             /\ \A u \in uruns : u.excel_adi # dosya[j].Urun_Adi}}
        hatali == {i + 1 : i \in {j \in 1..Len(dosya) : dosya[j].bozuk}}
    IN  Sonuc("upload_excel", "", dosya, islenen > 0,
              [tur |-> "yukleme",
               alanlar |-> [islenen |-> islenen, taninmayan |-> taninmayan,
                            hatali |-> hatali]],
              None)

\* upload_excel with its response
UploadExcelYanit(dosya) ==
    LET yeni == YeniKayitlar(dosya, urunler)
    IN  /\ BagCardinality(satis_kayitlari) + BagCardinality(yeni) <= MaxSatis
        /\ satis_kayitlari' = satis_kayitlari (+) yeni
        /\ sonuc' = UploadYaniti(dosya, urunler)
        /\ UNCHANGED <<hammaddeler, urunler, receteler>>

\* the row that db.session.get finds, or None
Bul(tablo, id) ==
    IF \E t \in tablo : t.id = id THEN CHOOSE t \in tablo : t.id = id ELSE None

\* edit_product: new name and price, then every item cost is recomputed
EditProduct(id, isim, fiyat) ==
    /\ Bul(urunler, id) # None
    /\ RLt(R(0), fiyat)
    /\ ~\E u \in urunler : u.id # id /\ (u.isim = isim \/ u.excel_adi = isim)
    /\ \E kategori \in Kategoriler, grup \in KategoriGruplari :
          urunler' =
             GuncelleTumUrunMaliyetleri(
                { IF u.id = id
                  THEN Urun(id, isim, isim, fiyat, u.hesaplanan_maliyet, kategori, grup)
                  ELSE u : u \in urunler },
                receteler, hammaddeler)
    /\ sonuc' = NoCall
    /\ UNCHANGED <<hammaddeler, receteler, satis_kayitlari>>

\* the sales table without the rows of one item
SatislariSil(satis, urun_id) ==
    LET kalan == {r \in BagToSet(satis) : r.urun_id # urun_id}
    IN  [r \in kalan |-> CopiesIn(r, satis)]

\* delete_product: the item goes, and with it (cascade "all, delete-orphan")
\* its recipe lines and its sales records; no cost is recomputed
DeleteProduct(id) ==
    /\ Bul(urunler, id) # None
    /\ urunler' = {u \in urunler : u.id # id}
    /\ receteler' = {k \in receteler : k.urun_id # id}
    /\ satis_kayitlari' = SatislariSil(satis_kayitlari, id)
    /\ sonuc' = NoCall
    /\ UNCHANGED hammaddeler

\* hammadde.receteler.first(): a recipe line uses the ingredient
RecetedeKullaniliyor(recs, id) == \E k \in recs : k.hammadde_id = id

\* delete_material: refused while a recipe line uses the ingredient
DeleteMaterial(id) ==
    /\ Bul(hammaddeler, id) # None
    /\ hammaddeler' =
          IF RecetedeKullaniliyor(receteler, id) THEN hammaddeler
          ELSE {h \in hammaddeler : h.id # id}
    /\ sonuc' = NoCall
    /\ UNCHANGED <<urunler, receteler, satis_kayitlari>>

\* the INSERT of a recipe line violates a foreign key: the item or the
\* ingredient it names does not exist
YabanciAnahtarHatasi(urun_id, hammadde_id) ==
    Bul(urunler, urun_id) = None \/ Bul(hammaddeler, hammadde_id) = None

\* add_recipe on a database that enforces foreign keys (PostgreSQL): the
\* commit of a line that names a missing row raises IntegrityError and is
\* rolled back.  AddRecipe above is add_recipe on a database that does not
\* (SQLite, the connection never turns PRAGMA foreign_keys on)
AddRecipeFK(urun_id, hammadde_id, miktar) ==
    IF /\ YabanciAnahtarHatasi(urun_id, hammadde_id)
       /\ ~\E k \in receteler : k.urun_id = urun_id /\ k.hammadde_id = hammadde_id
    THEN /\ RLt(R(0), miktar)
         /\ sonuc' = NoCall
         /\ UNCHANGED <<hammaddeler, urunler, receteler, satis_kayitlari>>
    ELSE AddRecipe(urun_id, hammadde_id, miktar)

\* edit_recipe: new quantity of a line, then every item cost is recomputed
EditRecipe(id, miktar) ==
    /\ Bul(receteler, id) # None
    /\ RLt(R(0), miktar)
    /\ receteler' = { IF k.id = id THEN [k EXCEPT !.miktar = miktar] ELSE k
                      : k \in receteler }
    /\ urunler' = GuncelleTumUrunMaliyetleri(urunler, receteler', hammaddeler)
    /\ sonuc' = NoCall
    /\ UNCHANGED <<hammaddeler, satis_kayitlari>>

\* delete_recipe: the line goes, then every item cost is recomputed.  The
\* handler reads recete_item.urun.isim and recete_item.hammadde.isim first:
\* for a line whose item or ingredient is missing that is an AttributeError
\* and nothing is deleted
DeleteRecipe(id) ==
    /\ Bul(receteler, id) # None
    /\ LET k == Bul(receteler, id)
       IN  receteler' =
              IF YabanciAnahtarHatasi(k.urun_id, k.hammadde_id) THEN receteler
              ELSE receteler \ {k}
    /\ urunler' = IF receteler' = receteler THEN urunler
                  ELSE GuncelleTumUrunMaliyetleri(urunler, receteler', hammaddeler)
    /\ sonuc' = NoCall
    /\ UNCHANGED <<hammaddeler, satis_kayitlari>>

\* delete_sales_by_date: the sales records of one calendar date go
DeleteSalesByDate(target_date) ==
    /\ LET kalan == {r \in BagToSet(satis_kayitlari) : Takvim(r.tarih) # target_date}
       IN  satis_kayitlari' = [r \in kalan |-> CopiesIn(r, satis_kayitlari)]
    /\ sonuc' = NoCall
    /\ UNCHANGED <<hammaddeler, urunler, receteler>>

----------------------------------------------------------------------------
(* analysis_engine.py: DataFrames and the Sales Aggregator *)

NoneDF == [none |-> TRUE, columns |-> {}, rows |-> <<>>]

DataFrame(columns, rows) == [none |-> FALSE, columns |-> columns, rows |-> rows]

\* df[c] raises KeyError exactly when the frame has no column c
HasCol(df, c) == c \in df.columns

\* df[c] as a sequence of values
Col(df, c) == [i \in 1..Len(df.rows) |-> df.rows[i][c]]

\* Series.nunique()
NUnique(s) == Cardinality({s[i] : i \in 1..Len(s)})

\* sum of adet over the rows of a bag, each counted as often as it occurs
RECURSIVE ToplamAdet(_, _)
ToplamAdet(S, satis) ==
    IF S = {} THEN 0
    ELSE LET r == CHOOSE x \in S : TRUE
         IN  r.adet * CopiesIn(r, satis) + ToplamAdet(S \ {r}, satis)

\* number of rows of a bag among the rows S
RECURSIVE ToplamSatir(_, _)
ToplamSatir(S, satis) ==
    IF S = {} THEN 0
    ELSE LET r == CHOOSE x \in S : TRUE
         IN  CopiesIn(r, satis) + ToplamSatir(S \ {r}, satis)

\* one row of df_grouped: the sales of one price
GrupSatiri(fiyat, S, satis) ==
    LET toplam_adet == ToplamAdet(S, satis)
        gun_sayisi == Cardinality({r.tarih : r \in S})
    IN  [hesaplanan_birim_fiyat |-> fiyat,
         toplam_adet |-> R(toplam_adet),
         gun_sayisi |-> R(gun_sayisi),
         ortalama_gunluk_adet |-> RDiv(R(toplam_adet), R(gun_sayisi))]

\* variant of the condition below that lets a single price through
TekFiyatKabul(df_grouped) == Len(df_grouped.rows) < 1

\* _get_daily_sales_data: len(df_grouped) < 2
AzFiyat(df_grouped) == Len(df_grouped.rows) < 2

\* _get_daily_sales_data: the sales of one item grouped by unit price, or
\* None with fewer than 2 rows or fewer than 2 prices
GetDailySalesData(satis, urun_id) ==
    LET satislar == {r \in BagToSet(satis) : r.urun_id = urun_id}
        n == ToplamSatir(satislar, satis)
        fiyatlar == SortAsc({r.hesaplanan_birim_fiyat : r \in satislar})
        df_grouped ==
            DataFrame({"hesaplanan_birim_fiyat", "toplam_adet", "gun_sayisi",
                       "ortalama_gunluk_adet"},
                      [i \in 1..Len(fiyatlar) |->
                          GrupSatiri(fiyatlar[i],
                                     {r \in satislar :
                                         r.hesaplanan_birim_fiyat = fiyatlar[i]},
                                     satis)])
    IN  IF n < 2 THEN NoneDF
        ELSE IF AzFiyat(df_grouped) THEN NoneDF
        ELSE df_grouped

----------------------------------------------------------------------------
(* analysis_engine.py: the engines *)

\* a query that has lost its filter: Urun.query.first()
UrunBulIlk(uruns, urun_ismi) ==
    IF uruns = {} THEN None
    ELSE CHOOSE u \in uruns : \A v \in uruns : u.id <= v.id

\* Urun.query.filter_by(isim=urun_ismi).first(), None when there is none
UrunBul(uruns, urun_ismi) ==
    LET es == {u \in uruns : u.isim = urun_ismi}
    IN  IF es = {} THEN None
        ELSE CHOOSE u \in es : \A v \in es : u.id <= v.id

\* a report: its kind and the numbers it quotes, formatted as in the text
Rapor(tur, alanlar) == [tur |-> tur, alanlar |-> alanlar]

Bos == [x \in {} |-> None]

\* an engine without its handler: the exception leaves the function and no
\* (success, report, chart) is returned
IstisnaKacar(fn, isim, arg, mesaj) ==
    Sonuc(fn, isim, arg, FALSE, [tur |-> "kacan_istisna", alanlar |-> [mesaj |-> mesaj]], None)

\* the result of an exception caught by the outermost handler
Istisna(fn, isim, arg, mesaj) ==
    Sonuc(fn, isim, arg, FALSE, [tur |-> "istisna", alanlar |-> [mesaj |-> mesaj]], None)

\* a margin check that lets 0 through
MarjGecerliSifirDahil(hedef_marj_yuzdesi) ==
    RLe(R(0), hedef_marj_yuzdesi) /\ RLt(hedef_marj_yuzdesi, R(100))

\* hesapla_hedef_marj: 0 < hedef_marj_yuzdesi < 100
MarjGecerli(hedef_marj_yuzdesi) ==
    RLt(R(0), hedef_marj_yuzdesi) /\ RLt(hedef_marj_yuzdesi, R(100))

\* a markup on cost instead of a margin on price
GerekenSatisFiyatiMarkup(maliyet, hedef_marj_yuzdesi) ==
    RMul(maliyet, RAdd(R(1), RDiv(hedef_marj_yuzdesi, R(100))))

\* hesapla_hedef_marj: maliyet / (1 - marj_orani)
GerekenSatisFiyati(maliyet, hedef_marj_yuzdesi) ==
    LET marj_orani == RDiv(hedef_marj_yuzdesi, R(100))
    IN  RDiv(maliyet, RSub(R(1), marj_orani))

\* hesapla_hedef_marj
HesaplaHedefMarj(uruns, urun_ismi, hedef_marj_yuzdesi) ==
    LET fn == "hesapla_hedef_marj"
        urun == UrunBul(uruns, urun_ismi)
        maliyet == urun.hesaplanan_maliyet
        gereken_satis_fiyati == GerekenSatisFiyati(maliyet, hedef_marj_yuzdesi)
    IN  IF urun = None
        THEN Sonuc(fn, urun_ismi, hedef_marj_yuzdesi, FALSE,
                   Rapor("urun_bulunamadi", Bos), None)
        ELSE IF maliyet = None \/ RLe(maliyet, R(0))
        THEN Sonuc(fn, urun_ismi, hedef_marj_yuzdesi, FALSE,
                   Rapor("maliyet_hesaplanmamis", Bos), None)
        ELSE IF ~MarjGecerli(hedef_marj_yuzdesi)
        THEN Sonuc(fn, urun_ismi, hedef_marj_yuzdesi, FALSE,
                   Rapor("gecersiz_marj", Bos), None)
        ELSE Sonuc(fn, urun_ismi, hedef_marj_yuzdesi, TRUE,
                   Rapor("hesaplama_sonucu",
                         [maliyet |-> Round2(maliyet),
                          marj |-> Fmt0(hedef_marj_yuzdesi),
                          gereken_satis_fiyati |-> Round2(gereken_satis_fiyati)]),
                   None)

\* number of samples of the chart: np.linspace(min_fiyat, max_fiyat, 50)
EgriNoktaSayisi == 50

NoModel == [none |-> TRUE, coef |-> None, intercept |-> None]

\* LinearRegression().fit(X, y): the least-squares line through (X[i], y[i])
LinearRegressionFit(X, y) ==
    LET xo == RMean(X)
        yo == RMean(y)
        sxy == RSum([i \in 1..Len(X) |-> RMul(RSub(X[i], xo), RSub(y[i], yo))])
        sxx == RSum([i \in 1..Len(X) |-> RMul(RSub(X[i], xo), RSub(X[i], xo))])
        coef == RDiv(sxy, sxx)
    IN  [none |-> FALSE, coef |-> coef, intercept |-> RSub(yo, RMul(coef, xo))]

\* model.predict
Predict(model, fiyat) == RAdd(RMul(model.coef, fiyat), model.intercept)

\* np.linspace(a, b, n)
Linspace(a, b, n) ==
    [i \in 1..n |-> RAdd(a, RDiv(RMul(R(i - 1), RSub(b, a)), R(n - 1)))]

\* np.arange(a, b, adim), adim # 0
Arange(a, b, adim) ==
    LET n == RCeil(RDiv(RSub(b, a), adim))
    IN  [i \in 1..(IF n > 0 THEN n ELSE 0) |-> RAdd(a, RMul(R(i - 1), adim))]

\* _generate_price_curve_data: [hata |-> the exception raised, "" when none,
\* grafik |-> the chart]
GeneratePriceCurveData(model, maliyet, df_gunluk, simule_fiyat) ==
    LET fiyatlar == Col(df_gunluk, "ortalama_fiyat")
        min_fiyat == RMax(RMul(maliyet, <<11, 10>>), RMul(RMinOf(fiyatlar), <<4, 5>>))
        max_fiyat == RMul(RMaxOf(fiyatlar), <<3, 2>>)
        price_points == Linspace(min_fiyat, max_fiyat, EgriNoktaSayisi)
        ham_talep == [i \in 1..EgriNoktaSayisi |->
                        IF ~model.none THEN Predict(model, price_points[i])
                        ELSE RMean(Col(df_gunluk, "toplam_adet"))]
        predicted_demand == [i \in 1..EgriNoktaSayisi |-> RMax(ham_talep[i], R(0))]
        profit_points == [i \in 1..EgriNoktaSayisi |->
                             RMul(RSub(price_points[i], maliyet), predicted_demand[i])]
    IN  IF ~HasCol(df_gunluk, "ortalama_fiyat")
        THEN [hata |-> "KeyError: 'ortalama_fiyat'", grafik |-> None]
        ELSE IF simule_fiyat # None /\ simule_fiyat # R(0)
        THEN [hata |-> "UnboundLocalError: fiyat_max", grafik |-> None]
        ELSE IF model.none /\ ~HasCol(df_gunluk, "toplam_adet")
        THEN [hata |-> "KeyError: 'toplam_adet'", grafik |-> None]
        ELSE [hata |-> "",
              grafik |-> [type |-> "line",
                          labels |-> [i \in 1..EgriNoktaSayisi |-> Round2(price_points[i])],
                          data |-> [i \in 1..EgriNoktaSayisi |-> Round2(profit_points[i])]]]

\* simule_et_fiyat_degisikligi
SimuleEtFiyatDegisikligi(uruns, satis, urun_ismi, test_edilecek_yeni_fiyat) ==
    LET fn == "simule_et_fiyat_degisikligi"
        yeni == test_edilecek_yeni_fiyat
        urun == UrunBul(uruns, urun_ismi)
        maliyet == urun.hesaplanan_maliyet
        df_gunluk == GetDailySalesData(satis, urun.id)
        fiyatlar == Col(df_gunluk, "ortalama_fiyat")
        adetler == Col(df_gunluk, "toplam_adet")
        mevcut_ortalama_fiyat ==
            RDiv(RSum([i \in 1..Len(fiyatlar) |-> RMul(fiyatlar[i], adetler[i])]),
                 RSum(adetler))
        mevcut_gunluk_satis == RMean(adetler)
        mevcut_gunluk_kar == RMul(RSub(mevcut_ortalama_fiyat, maliyet), mevcut_gunluk_satis)
        mevcut == [ortalama_fiyat |-> Round2(mevcut_ortalama_fiyat),
                   gunluk_satis |-> Fmt1(mevcut_gunluk_satis),
                   maliyet |-> Round2(maliyet),
                   gunluk_kar |-> Round2(mevcut_gunluk_kar)]
        model == LinearRegressionFit(fiyatlar, adetler)
        tahmini_yeni_satis == RMax(R(0), Predict(model, yeni))
        tahmini_yeni_kar == RMul(RSub(yeni, maliyet), tahmini_yeni_satis)
        kar_degisimi == RSub(tahmini_yeni_kar, mevcut_gunluk_kar)
        egri == GeneratePriceCurveData(model, maliyet, df_gunluk, yeni)
    IN  IF urun = None
        THEN Sonuc(fn, urun_ismi, yeni, FALSE, Rapor("urun_bulunamadi", Bos), None)
        ELSE IF maliyet = None \/ RLe(maliyet, R(0))
        THEN Sonuc(fn, urun_ismi, yeni, FALSE, Rapor("maliyet_hesaplanmamis", Bos), None)
        ELSE IF df_gunluk.none \/ Len(df_gunluk.rows) = 0
        THEN Sonuc(fn, urun_ismi, yeni, FALSE, Rapor("yetersiz_veri", Bos), None)
        ELSE IF ~HasCol(df_gunluk, "ortalama_fiyat")
        THEN Istisna(fn, urun_ismi, yeni, "KeyError: 'ortalama_fiyat'")
        ELSE IF ~HasCol(df_gunluk, "toplam_adet")
        THEN Istisna(fn, urun_ismi, yeni, "KeyError: 'toplam_adet'")
        ELSE IF NUnique(fiyatlar) < 2
        THEN Sonuc(fn, urun_ismi, yeni, FALSE, Rapor("uyari_tek_fiyat", mevcut), None)
        ELSE IF RLe(R(0), model.coef)
        THEN Sonuc(fn, urun_ismi, yeni, FALSE, Rapor("uyari_artan_talep", mevcut), None)
        ELSE IF egri.hata # ""
        THEN Istisna(fn, urun_ismi, yeni, egri.hata)
        ELSE Sonuc(fn, urun_ismi, yeni, TRUE,
                   Rapor("simulasyon_sonucu",
                         [mevcut |-> mevcut,
                          yeni_fiyat |-> Round2(yeni),
                          tahmini_satis |-> Fmt1(tahmini_yeni_satis),
                          tahmini_kar |-> Round2(tahmini_yeni_kar),
                          tavsiye |-> RLt(R(0), kar_degisimi),
                          kar_degisimi |-> Round2(IF RLt(R(0), kar_degisimi)
                                                  THEN kar_degisimi
                                                  ELSE RSub(R(0), kar_degisimi))]),
                   egri.grafik)

\* index of the first largest element: Series.idxmax()
IdxMax(s) ==
    CHOOSE i \in 1..Len(s) :
        /\ \A j \in 1..Len(s) : RLe(s[j], s[i])
        /\ \A j \in 1..(i - 1) : RLt(s[j], s[i])

\* bul_optimum_fiyat
BulOptimumFiyat(uruns, satis, urun_ismi, fiyat_deneme_araligi) ==
    LET fn == "bul_optimum_fiyat"
        adim == fiyat_deneme_araligi
        urun == UrunBul(uruns, urun_ismi)
        maliyet == urun.hesaplanan_maliyet
        mevcut_fiyat == urun.mevcut_satis_fiyati
        df_gunluk == GetDailySalesData(satis, urun.id)
        fiyatlar == Col(df_gunluk, "ortalama_fiyat")
        adetler == Col(df_gunluk, "toplam_adet")
        tek_fiyat == NUnique(fiyatlar) < 2
        uydurulan == LinearRegressionFit(fiyatlar, adetler)
        model == IF tek_fiyat THEN NoModel
                 ELSE IF RLe(R(0), uydurulan.coef) THEN NoModel
                 ELSE uydurulan
        uyari == IF tek_fiyat THEN "tek_fiyat"
                 ELSE IF RLe(R(0), uydurulan.coef) THEN "artan_talep"
                 ELSE ""
        min_fiyat == RMax(RMul(maliyet, <<11, 10>>), RMul(RMinOf(fiyatlar), <<4, 5>>))
        max_fiyat == RMul(RMaxOf(fiyatlar), <<3, 2>>)
        test_prices == Arange(min_fiyat, max_fiyat, adim)
        tahmini_adet == [i \in 1..Len(test_prices) |->
                            RMax(R(0), IF ~model.none THEN Predict(model, test_prices[i])
                                       ELSE RMean(adetler))]
        tahmini_kar == [i \in 1..Len(test_prices) |->
                           RMul(RSub(test_prices[i], maliyet), tahmini_adet[i])]
        optimum == IdxMax(tahmini_kar)
        mevcut_gunluk_satis == RMean(adetler)
        mevcut_kar == RMul(RSub(mevcut_fiyat, maliyet), mevcut_gunluk_satis)
        egri == GeneratePriceCurveData(model, maliyet, df_gunluk, None)
    IN  IF urun = None
        THEN Sonuc(fn, urun_ismi, adim, FALSE, Rapor("urun_bulunamadi", Bos), None)
        ELSE IF maliyet = None \/ RLe(maliyet, R(0))
        THEN Sonuc(fn, urun_ismi, adim, FALSE, Rapor("maliyet_hesaplanmamis", Bos), None)
        ELSE IF df_gunluk.none \/ Len(df_gunluk.rows) = 0
        THEN Sonuc(fn, urun_ismi, adim, FALSE, Rapor("yetersiz_veri", Bos), None)
        ELSE IF ~HasCol(df_gunluk, "ortalama_fiyat")
        THEN Istisna(fn, urun_ismi, adim, "KeyError: 'ortalama_fiyat'")
        ELSE IF ~tek_fiyat /\ ~HasCol(df_gunluk, "toplam_adet")
        THEN Istisna(fn, urun_ismi, adim, "KeyError: 'toplam_adet'")
        ELSE IF adim = R(0)
        THEN Istisna(fn, urun_ismi, adim, "ZeroDivisionError")
        ELSE IF Len(test_prices) = 0
        THEN Sonuc(fn, urun_ismi, adim, FALSE,
                   Rapor("gecerli_aralik_yok",
                         [min_fiyat |-> min_fiyat, max_fiyat |-> max_fiyat]), None)
        ELSE IF ~HasCol(df_gunluk, "toplam_adet")
        THEN Istisna(fn, urun_ismi, adim, "KeyError: 'toplam_adet'")
        ELSE IF egri.hata # ""
        THEN Istisna(fn, urun_ismi, adim, egri.hata)
        ELSE Sonuc(fn, urun_ismi, adim, TRUE,
                   Rapor("optimum_fiyat",
                         [uyari |-> uyari,
                          mevcut_fiyat |-> Round2(mevcut_fiyat),
                          mevcut_kar |-> Round2(mevcut_kar),
                          optimum_fiyat |-> Round2(test_prices[optimum]),
                          tahmini_adet |-> Fmt1(tahmini_adet[optimum]),
                          tahmini_kar |-> Round2(tahmini_kar[optimum])]),
                   egri.grafik)

----------------------------------------------------------------------------
(* analysis_engine.py: the Period Comparator *)

\* _get_sales_by_filter(filtre, isim): analysis_engine.py defines no such
\* function and imports none, so the call raises NameError
GetSalesByFilter(uruns, satis, filtre, isim) ==
    [hata |-> "NameError: name '_get_sales_by_filter' is not defined", df |-> NoneDF]

\* _hesapla_kategori_ozeti(df, grup_kolonu): not defined either
HesaplaKategoriOzeti(df, grup_kolonu) ==
    [hata |-> "NameError: name '_hesapla_kategori_ozeti' is not defined",
     toplam_kari |-> None, paylar |-> Bos, karlar |-> Bos]

\* a date as the timestamp of its midnight: pd.to_datetime(date)
GunBasi(gun) == <<gun, 0>>

\* tarih >= pd.to_datetime(gun) on timestamps <<day, time of day>>
TarihGe(tarih, gun) ==
    tarih[1] > GunBasi(gun)[1]
       \/ (tarih[1] = GunBasi(gun)[1] /\ tarih[2] >= GunBasi(gun)[2])

\* df_bu_periyot: the rows with tarih >= bu_periyot_basi
BuPeriyot(df_satislar, bugun, gun_sayisi) ==
    LET bu_periyot_basi == bugun - gun_sayisi
        Icinde(r) == TarihGe(r.tarih, bu_periyot_basi)
    IN  [df_satislar EXCEPT !.rows = SelectSeq(df_satislar.rows, Icinde)]

\* df_onceki_periyot: onceki_periyot_basi <= tarih < bu_periyot_basi
OncekiPeriyot(df_satislar, bugun, gun_sayisi) ==
    LET bu_periyot_basi == bugun - gun_sayisi
        onceki_periyot_basi == bu_periyot_basi - gun_sayisi
        Icinde(r) == /\ TarihGe(r.tarih, onceki_periyot_basi)
                     /\ ~TarihGe(r.tarih, bu_periyot_basi)
    IN  [df_satislar EXCEPT !.rows = SelectSeq(df_satislar.rows, Icinde)]

\* the verdict of the report: fark > 0
KarArtti(fark) == RLt(R(0), fark)

\* analiz_et_kategori_veya_grup; bugun is datetime.now().date()
AnalizEtKategoriVeyaGrup(uruns, satis, tip, isim, gun_sayisi, bugun) ==
    LET fn == "analiz_et_kategori_veya_grup"
        arg == <<tip, gun_sayisi, bugun>>
        okunan == GetSalesByFilter(uruns, satis, tip, isim)
        df_satislar == okunan.df
        grup_kolonu == IF tip = "kategori" THEN "isim" ELSE "kategori"
        df_bu_periyot == BuPeriyot(df_satislar, bugun, gun_sayisi)
        df_onceki_periyot == OncekiPeriyot(df_satislar, bugun, gun_sayisi)
        ozet_bu == HesaplaKategoriOzeti(df_bu_periyot, grup_kolonu)
        ozet_onceki == HesaplaKategoriOzeti(df_onceki_periyot, grup_kolonu)
        fark == RSub(ozet_bu.toplam_kari, ozet_onceki.toplam_kari)
        labels == DOMAIN ozet_onceki.karlar \cup DOMAIN ozet_bu.karlar
        Get(karlar, label) == IF label \in DOMAIN karlar THEN karlar[label] ELSE R(0)
    IN  IF tip \notin {"kategori", "kategori_grubu"}
        THEN Sonuc(fn, isim, arg, FALSE, Rapor("gecersiz_tip", Bos), None)
        ELSE IF okunan.hata # ""
        THEN Istisna(fn, isim, arg, okunan.hata)
        ELSE IF df_satislar.none \/ Len(df_satislar.rows) = 0
        THEN Sonuc(fn, isim, arg, FALSE, Rapor("veri_yok", Bos), None)
        ELSE IF Len(df_bu_periyot.rows) = 0 \/ Len(df_onceki_periyot.rows) = 0
        THEN Sonuc(fn, isim, arg, FALSE, Rapor("uyari_yetersiz_veri", Bos), None)
        ELSE IF ozet_bu.hata # ""
        THEN Istisna(fn, isim, arg, ozet_bu.hata)
        ELSE IF ozet_onceki.hata # ""
        THEN Istisna(fn, isim, arg, ozet_onceki.hata)
        ELSE Sonuc(fn, isim, arg, TRUE,
                   Rapor("donem_karsilastirma",
                         [onceki_toplam_kari |-> Round2(ozet_onceki.toplam_kari),
                          bu_toplam_kari |-> Round2(ozet_bu.toplam_kari),
                          artti |-> KarArtti(fark),
                          fark |-> Round2(IF KarArtti(fark) THEN fark
                                          ELSE RSub(R(0), fark)),
                          yamyamlik |-> IF KarArtti(fark) THEN ""
                                        ELSE IF tip = "kategori_grubu" THEN "capraz"
                                        ELSE "ic"]),
                   [type |-> "bar",
                    labels |-> labels,
                    data_onceki |-> [l \in labels |-> Get(ozet_onceki.karlar, l)],
                    data_bu |-> [l \in labels |-> Get(ozet_bu.karlar, l)]])

----------------------------------------------------------------------------
(* The analysis requests: reports() of app.py calls one engine *)

HedefMarjlari == {R(-10), R(0), R(30), R(50), R(100), R(150)}
DenemeFiyatlari == {R(22)}
DenemeAraliklari == {R(1)}

\* the calls of one engine: every argument for the items, one for a name
\* that no item has
Cagrilar(argumanlar) ==
    (UrunIsimleri \X argumanlar)
       \cup {<<BilinmeyenIsim, CHOOSE a \in argumanlar : TRUE>>}

HedefMarj(isim, marj) ==
    /\ sonuc' = HesaplaHedefMarj(urunler, isim, marj)
    /\ UNCHANGED <<hammaddeler, urunler, receteler, satis_kayitlari>>

Simulasyon(isim, fiyat) ==
    /\ sonuc' = SimuleEtFiyatDegisikligi(urunler, satis_kayitlari, isim, fiyat)
    /\ UNCHANGED <<hammaddeler, urunler, receteler, satis_kayitlari>>

OptimumFiyat(isim, adim) ==
    /\ sonuc' = BulOptimumFiyat(urunler, satis_kayitlari, isim, adim)
    /\ UNCHANGED <<hammaddeler, urunler, receteler, satis_kayitlari>>

\* reports: analiz_et_kategori_veya_grup(tip, isim, gun_sayisi) on the day bugun
DonemAnalizi(tip, isim, gun_sayisi, bugun) ==
    /\ sonuc' = AnalizEtKategoriVeyaGrup(urunler, satis_kayitlari, tip, isim,
                                          gun_sayisi, bugun)
    /\ UNCHANGED <<hammaddeler, urunler, receteler, satis_kayitlari>>

Next ==
    \/ \E isim \in UrunIsimleri, fiyat \in UrunFiyatlari :
          AddProduct(isim, fiyat) /\ UNCHANGED <<cagrilar, istekler>>
    \/ \E isim \in HammaddeIsimleri, fiyat \in HammaddeFiyatlari :
          AddMaterial(isim, fiyat) /\ UNCHANGED <<cagrilar, istekler>>
    \/ \E h \in hammaddeler, fiyat \in HammaddeFiyatlari :
          EditMaterial(h.id, fiyat) /\ UNCHANGED <<cagrilar, istekler>>
    \/ \E u \in urunler, h \in hammaddeler, miktar \in Miktarlar :
          AddRecipe(u.id, h.id, miktar) /\ UNCHANGED <<cagrilar, istekler>>
    \/ \E dosya \in Dosyalar : UploadExcel(dosya) /\ UNCHANGED <<cagrilar, istekler>>
    \/ \E c \in Cagrilar(HedefMarjlari) : HedefMarj(c[1], c[2]) /\ UNCHANGED <<cagrilar, istekler>>
    \/ \E c \in Cagrilar(DenemeFiyatlari) : Simulasyon(c[1], c[2]) /\ UNCHANGED <<cagrilar, istekler>>
    \/ \E c \in Cagrilar(DenemeAraliklari) :
          OptimumFiyat(c[1], c[2]) /\ UNCHANGED <<cagrilar, istekler>>

Spec == Init /\ [][Next]_vars

----------------------------------------------------------------------------
(* The same requests with all four analysis functions and a wider choice   *)
(* of arguments; files of one row                                          *)

\* candidate prices of the Price Simulator
AnalizFiyatlari == {R(-5), R(0), R(22)}
\* tip of the Period Comparator; "urun" is no tip it knows
AnalizTipleri == {"kategori", "kategori_grubu", "urun"}
\* names of a category or a category group
GrupIsimleri == Kategoriler \cup KategoriGruplari
GunSayilari == {1}
\* the days on which the comparator is asked
Bugunler == {2, 3}

TumIsimler == UrunIsimleri \cup {BilinmeyenIsim}

AnalizNext ==
    \/ \E isim \in UrunIsimleri, fiyat \in UrunFiyatlari :
          AddProduct(isim, fiyat) /\ UNCHANGED <<cagrilar, istekler>>
    \/ \E isim \in HammaddeIsimleri, fiyat \in HammaddeFiyatlari :
          AddMaterial(isim, fiyat) /\ UNCHANGED <<cagrilar, istekler>>
    \/ \E h \in hammaddeler, fiyat \in HammaddeFiyatlari :
          EditMaterial(h.id, fiyat) /\ UNCHANGED <<cagrilar, istekler>>
    \/ \E u \in urunler, h \in hammaddeler, miktar \in Miktarlar :
          AddRecipe(u.id, h.id, miktar) /\ UNCHANGED <<cagrilar, istekler>>
    \/ \E satir \in ExcelSatirlari : UploadExcel(<<satir>>) /\ UNCHANGED <<cagrilar, istekler>>
    \/ \E isim \in TumIsimler, marj \in HedefMarjlari :
          HedefMarj(isim, marj) /\ UNCHANGED <<cagrilar, istekler>>
    \/ \E isim \in TumIsimler, fiyat \in AnalizFiyatlari :
          Simulasyon(isim, fiyat) /\ UNCHANGED <<cagrilar, istekler>>
    \/ \E isim \in TumIsimler, adim \in DenemeAraliklari :
          OptimumFiyat(isim, adim) /\ UNCHANGED <<cagrilar, istekler>>
    \/ \E tip \in AnalizTipleri, isim \in GrupIsimleri,
          gun_sayisi \in GunSayilari, bugun \in Bugunler :
          DonemAnalizi(tip, isim, gun_sayisi, bugun) /\ UNCHANGED <<cagrilar, istekler>>

AnalizSpec == Init /\ [][AnalizNext]_vars

----------------------------------------------------------------------------
(* The management requests of app.py, one at a time: items, ingredients,   *)
(* recipe lines and sales files are added, changed and deleted             *)

\* the ids a request can name: of rows that exist and of rows that do not
IdAdaylari == {1, 2}
\* greatest primary key that the recipe table hands out
MaxReceteId == 2
ReceteIdleri == 1..MaxReceteId

YonetimUrunFiyatlari == {R(22), R(30)}
YonetimMiktarlari == {R(2), R(3)}

\* rows of a sales file: a valid one, one with quantity 0, one with a
\* negative quantity, one of an unknown item, one that does not parse
YonetimSatirlari ==
    { ExcelSatiri("Burger", 2, R(50), <<1, 0>>, FALSE),
      ExcelSatiri("Burger", 0, R(0), <<1, 0>>, FALSE),
      ExcelSatiri("Burger", -1, R(50), <<1, 0>>, FALSE),
      ExcelSatiri(BilinmeyenIsim, 2, R(50), <<1, 0>>, FALSE),
      ExcelSatiri("Burger", 2, R(50), <<1, 0>>, TRUE) }

SatisGunleri == {1}

YonetimNext ==
    \/ \E isim \in UrunIsimleri, fiyat \in UrunFiyatlari :
          /\ AddProduct(isim, fiyat) /\ UNCHANGED <<cagrilar, istekler>>
    \/ \E id \in IdAdaylari, isim \in UrunIsimleri, fiyat \in YonetimUrunFiyatlari :
          EditProduct(id, isim, fiyat) /\ UNCHANGED <<cagrilar, istekler>>
    \/ \E id \in IdAdaylari : DeleteProduct(id) /\ UNCHANGED <<cagrilar, istekler>>
    \/ \E isim \in HammaddeIsimleri, fiyat \in HammaddeFiyatlari :
          /\ AddMaterial(isim, fiyat) /\ UNCHANGED <<cagrilar, istekler>>
    \/ \E id \in IdAdaylari, fiyat \in HammaddeFiyatlari :
          EditMaterial(id, fiyat) /\ UNCHANGED <<cagrilar, istekler>>
    \/ \E id \in IdAdaylari : DeleteMaterial(id) /\ UNCHANGED <<cagrilar, istekler>>
    \/ \E urun_id \in IdAdaylari, hammadde_id \in IdAdaylari,
          miktar \in YonetimMiktarlari :
          /\ NextId(receteler) \in ReceteIdleri
          /\ AddRecipe(urun_id, hammadde_id, miktar) /\ UNCHANGED <<cagrilar, istekler>>
    \/ \E urun_id \in IdAdaylari, hammadde_id \in IdAdaylari,
          miktar \in YonetimMiktarlari :
          /\ NextId(receteler) \in ReceteIdleri
          /\ AddRecipeFK(urun_id, hammadde_id, miktar)
          /\ UNCHANGED <<cagrilar, istekler>>
    \/ \E id \in ReceteIdleri, miktar \in YonetimMiktarlari :
          EditRecipe(id, miktar) /\ UNCHANGED <<cagrilar, istekler>>
    \/ \E id \in ReceteIdleri : DeleteRecipe(id) /\ UNCHANGED <<cagrilar, istekler>>
    \/ \E satir \in YonetimSatirlari :
          UploadExcel(<<satir>>) /\ UNCHANGED <<cagrilar, istekler>>
    \/ \E gun \in SatisGunleri :
          DeleteSalesByDate(gun) /\ UNCHANGED <<cagrilar, istekler>>

YonetimSpec == Init /\ [][YonetimNext]_vars

----------------------------------------------------------------------------
(* Properties.  After an analysis request sonuc holds the call and its     *)
(* result, and the database is the one the call has read.                  *)

SimFn == "simule_et_fiyat_degisikligi"
OptFn == "bul_optimum_fiyat"
MarjFn == "hesapla_hedef_marj"

\* the item the last call names exists, u is that item
CagriUrunu(u) == u \in urunler /\ u.isim = sonuc.urun_ismi

MaliyetPozitif(u) == u.hesaplanan_maliyet # None /\ RLt(R(0), u.hesaplanan_maliyet)

\* the sales rows of an item, their number, and the prices charged
Satislar(urun_id) == {r \in BagToSet(satis_kayitlari) : r.urun_id = urun_id}
SatirSayisi(urun_id) == ToplamSatir(Satislar(urun_id), satis_kayitlari)
FarkliFiyatlar(urun_id) == {r.hesaplanan_birim_fiyat : r \in Satislar(urun_id)}

\* total quantity sold at a price / number of distinct calendar dates at it
GunlukOrtalama(urun_id, fiyat) ==
    LET S == {r \in Satislar(urun_id) : r.hesaplanan_birim_fiyat = fiyat}
    IN  RDiv(R(ToplamAdet(S, satis_kayitlari)),
             R(Cardinality({Takvim(r.tarih) : r \in S})))

\* the least-squares line through the (price, mean daily quantity) points
TalepDogrusu(urun_id) ==
    LET fiyatlar == SortAsc(FarkliFiyatlar(urun_id))
    IN  LinearRegressionFit(fiyatlar,
                            [i \in 1..Len(fiyatlar) |-> GunlukOrtalama(urun_id, fiyatlar[i])])

EnAzIkiFiyat(urun_id) == Cardinality(FarkliFiyatlar(urun_id)) >= 2

\* the search range and grid of Optimum-Price Search
AltSinir(u) ==
    RMax(RMul(u.hesaplanan_maliyet, <<11, 10>>),
         RMul(RMinOf(SortAsc(FarkliFiyatlar(u.id))), <<4, 5>>))
UstSinir(u) == RMul(RMaxOf(SortAsc(FarkliFiyatlar(u.id))), <<3, 2>>)
IzgaraBos(u, adim) == RCeil(RDiv(RSub(UstSinir(u), AltSinir(u)), adim)) <= 0

\* no call of the Price Simulator or of Optimum-Price Search succeeds
MotorlarBasarisiz == sonuc.fn \in {SimFn, OptFn} => ~sonuc.basari

\* C1: for an item with cost > 0 whose sales aggregate to at least 2 prices
\* with a negative fitted slope, the Price Simulator at price p succeeds and
\* quotes quantity max(0, line at p) and profit (p - cost) * quantity
C1_SimulatorPredicts ==
    \A u \in urunler :
        (/\ sonuc.fn = SimFn /\ CagriUrunu(u) /\ MaliyetPozitif(u)
         /\ EnAzIkiFiyat(u.id)
         /\ RLt(TalepDogrusu(u.id).coef, R(0)))
        => LET adet == RMax(R(0), Predict(TalepDogrusu(u.id), sonuc.arg))
           IN  /\ sonuc.basari
               /\ sonuc.rapor.tur = "simulasyon_sonucu"
               /\ sonuc.rapor.alanlar.tahmini_satis = Fmt1(adet)
               /\ sonuc.rapor.alanlar.tahmini_kar =
                     Round2(RMul(RSub(sonuc.arg, u.hesaplanan_maliyet), adet))

\* C3: with cost > 0 and at least 2 prices, Optimum-Price Search returns a
\* failure result with no chart exactly when the range from
\* max(1.1 cost, 0.8 min price) to 1.5 max price holds no grid point
C3_FailsExactlyOnEmptyRange ==
    \A u \in urunler :
        (/\ sonuc.fn = OptFn /\ CagriUrunu(u) /\ MaliyetPozitif(u)
         /\ EnAzIkiFiyat(u.id))
        => ((~sonuc.basari /\ sonuc.grafik = None) <=> IzgaraBos(u, sonuc.arg))

\* C4: where the Sales Aggregator yields points for at least 2 rows of an
\* item, it yields one point per distinct unit price, and the mean daily
\* quantity of each is the total quantity at that price divided by the
\* number of distinct calendar dates at that price
C4_AggregatorMeans ==
    \A u \in urunler :
        LET df == GetDailySalesData(satis_kayitlari, u.id)
        IN  (SatirSayisi(u.id) >= 2 /\ ~df.none)
            => /\ Len(df.rows) = Cardinality(FarkliFiyatlar(u.id))
               /\ {df.rows[i].hesaplanan_birim_fiyat : i \in 1..Len(df.rows)}
                     = FarkliFiyatlar(u.id)
               /\ \A i \in 1..Len(df.rows) :
                     df.rows[i].ortalama_gunluk_adet =
                        GunlukOrtalama(u.id, df.rows[i].hesaplanan_birim_fiyat)

\* C6: with at least 2 prices and a fitted slope >= 0 the Price Simulator
\* fails with the report that explains the rising demand, no chart and no
\* predicted quantity or profit
C6_SimulatorAbortsOnSlope ==
    \A u \in urunler :
        (/\ sonuc.fn = SimFn /\ CagriUrunu(u) /\ MaliyetPozitif(u)
         /\ EnAzIkiFiyat(u.id)
         /\ RLe(R(0), TalepDogrusu(u.id).coef))
        => /\ ~sonuc.basari
           /\ sonuc.grafik = None
           /\ sonuc.rapor.tur = "uyari_artan_talep"

\* the highest price of the grid
SonIzgaraFiyati(u, adim) ==
    RAdd(AltSinir(u),
         RMul(R(RCeil(RDiv(RSub(UstSinir(u), AltSinir(u)), adim)) - 1), adim))

\* C7: with at least 2 prices and a fitted slope >= 0 Optimum-Price Search
\* succeeds with a warning in the report, and the optimum it reports is the
\* highest price of the grid
C7_OptimumDegrades ==
    \A u \in urunler :
        (/\ sonuc.fn = OptFn /\ CagriUrunu(u) /\ MaliyetPozitif(u)
         /\ EnAzIkiFiyat(u.id)
         /\ RLe(R(0), TalepDogrusu(u.id).coef)
         /\ ~IzgaraBos(u, sonuc.arg))
        => /\ sonuc.basari
           /\ sonuc.rapor.tur = "optimum_fiyat"
           /\ sonuc.rapor.alanlar.uyari = "artan_talep"
           /\ sonuc.rapor.alanlar.optimum_fiyat = Round2(SonIzgaraFiyati(u, sonuc.arg))

C9_TargetMarginPrice ==
    \A u \in urunler :
        (/\ sonuc.fn = MarjFn /\ CagriUrunu(u) /\ MaliyetPozitif(u)
         /\ RLt(R(0), sonuc.arg) /\ RLt(sonuc.arg, R(100)))
        => /\ sonuc.basari
           /\ sonuc.grafik = None
           /\ sonuc.rapor.tur = "hesaplama_sonucu"
           /\ sonuc.rapor.alanlar.gereken_satis_fiyati =
                 Round2(RDiv(RMul(R(100), u.hesaplanan_maliyet),
                             RSub(R(100), sonuc.arg)))
           /\ (u.hesaplanan_maliyet = R(10) /\ sonuc.arg = R(50))
                 => sonuc.rapor.alanlar.gereken_satis_fiyati = R(20)

\* C9 witness: cost 10, margin 50, with sales on record
C9_Witness ==
    \E u \in urunler :
        /\ sonuc.fn = MarjFn /\ CagriUrunu(u)
        /\ u.hesaplanan_maliyet = R(10) /\ sonuc.arg = R(50)
        /\ SatirSayisi(u.id) >= 2
        /\ sonuc.basari

\* C10: for an existing item with cost > 0 the Target-Margin Solver fails,
\* reports the invalid margin and no price, for every m <= 0 and m >= 100
C10_InvalidMargin ==
    \A u \in urunler :
        (/\ sonuc.fn = MarjFn /\ CagriUrunu(u) /\ MaliyetPozitif(u)
         /\ (RLe(sonuc.arg, R(0)) \/ RLe(R(100), sonuc.arg)))
        => /\ ~sonuc.basari
           /\ sonuc.grafik = None
           /\ sonuc.rapor.tur = "gecersiz_marj"
           /\ sonuc.rapor.alanlar = Bos

\* C10 witness: margin exactly 0 asked for an item with cost > 0
C10_Witness ==
    \E u \in urunler :
        /\ sonuc.fn = MarjFn /\ CagriUrunu(u) /\ MaliyetPozitif(u)
        /\ sonuc.arg = R(0)
        /\ sonuc.rapor.tur = "gecersiz_marj"

----------------------------------------------------------------------------
(* Properties of AnalizSpec *)

KarsilastirmaFn == "analiz_et_kategori_veya_grup"
UrunMotorlari == {MarjFn, SimFn, OptFn}

\* no item has the name the last call names
UrunYok == \A u \in urunler : u.isim # sonuc.urun_ismi

\* C11: each of the three item engines fails with no chart and the "no such
\* item" report when no item has the name, and fails with no chart and the
\* "cost not computed" report when the item's cost is null or <= 0, whatever
\* the other argument and the sales of the item are
C11_UnknownItemOrNoCost ==
    sonuc.fn \in UrunMotorlari =>
        /\ UrunYok => /\ ~sonuc.basari
                      /\ sonuc.grafik = None
                      /\ sonuc.rapor.tur = "urun_bulunamadi"
        /\ \A u \in urunler :
              (CagriUrunu(u) /\ ~MaliyetPozitif(u))
              => /\ ~sonuc.basari
                 /\ sonuc.grafik = None
                 /\ sonuc.rapor.tur = "maliyet_hesaplanmamis"

\* C11 witness: Optimum-Price Search was called for an item with cost 0
\* that has sales at 2 prices
C11_Witness ==
    \E u \in urunler :
        /\ sonuc.fn = OptFn /\ CagriUrunu(u)
        /\ u.hesaplanan_maliyet = R(0)
        /\ EnAzIkiFiyat(u.id)
        /\ sonuc.rapor.tur = "maliyet_hesaplanmamis"

AnalizFonksiyonlari == UrunMotorlari \cup {KarsilastirmaFn}

\* the reports of a failed call, each a message of the function
BasarisizRaporlar ==
    {"urun_bulunamadi", "maliyet_hesaplanmamis", "gecersiz_marj", "yetersiz_veri",
     "uyari_tek_fiyat", "uyari_artan_talep", "gecerli_aralik_yok", "gecersiz_tip",
     "veri_yok", "uyari_yetersiz_veri", "istisna"}

\* the reports of a successful call
BasariliRaporlar ==
    {"hesaplama_sonucu", "simulasyon_sonucu", "optimum_fiyat", "donem_karsilastirma"}

\* C12: every call of the four analysis functions returns (success flag,
\* report, chart or none); no exception leaves the function; when the flag
\* is false the chart is none and the report is a failure message, which
\* for a caught exception carries the text of the exception
C12_TriStateResult ==
    sonuc.fn \in AnalizFonksiyonlari =>
        /\ sonuc.basari \in BOOLEAN
        /\ sonuc.rapor.tur \in BasarisizRaporlar \cup BasariliRaporlar
        /\ ~sonuc.basari => /\ sonuc.grafik = None
                            /\ sonuc.rapor.tur \in BasarisizRaporlar
        /\ sonuc.rapor.tur = "istisna" => sonuc.rapor.alanlar.mesaj # ""

\* C12 witness: a call of the Period Comparator ended in an exception that
\* its handler turned into a failure result
C12_Witness ==
    /\ sonuc.fn = KarsilastirmaFn
    /\ sonuc.arg[1] = "kategori_grubu"
    /\ ~sonuc.basari
    /\ sonuc.rapor.tur = "istisna"
    /\ sonuc.grafik = None

\* the sales rows of the items of a category (tip "kategori") or of a
\* category group (tip "kategori_grubu")
AnahtarSatislari(tip, isim) ==
    {r \in BagToSet(satis_kayitlari) :
        \E u \in urunler :
            /\ u.id = r.urun_id
            /\ IF tip = "kategori" THEN u.kategori = isim ELSE u.kategori_grubu = isim}

\* the current and the previous window as sets of days
SimdikiPencere(bugun, n) == {g \in (bugun - n)..(bugun - 1) : TRUE}
OncekiPencere(bugun, n) == {g \in (bugun - 2 * n)..(bugun - n - 1) : TRUE}

\* the rows of S dated in a window
Penceredekiler(S, pencere) == {r \in S : Takvim(r.tarih) \in pencere}

\* total profit of the rows S of the sales table
RECURSIVE ToplamKar(_)
ToplamKar(S) ==
    IF S = {} THEN R(0)
    ELSE LET r == CHOOSE x \in S : TRUE
         IN  RAdd(RMul(R(CopiesIn(r, satis_kayitlari)), r.hesaplanan_kar),
                  ToplamKar(S \ {r}))

\* the last call is one of the Period Comparator with a tip it knows
KarsilastirmaCagrisi ==
    sonuc.fn = KarsilastirmaFn /\ sonuc.arg[1] \in {"kategori", "kategori_grubu"}

\* C16: when both windows hold sales of the grouping key the Period
\* Comparator succeeds, and with delta = current total profit - previous
\* total profit it reports success for delta >= 0 and the cannibalization
\* warning for delta < 0, intra-group for tip "kategori" and cross-group for
\* tip "kategori_grubu"
C16_ComparatorVerdict ==
    KarsilastirmaCagrisi =>
        LET tip == sonuc.arg[1]
            n == sonuc.arg[2]
            bugun == sonuc.arg[3]
            S == AnahtarSatislari(tip, sonuc.urun_ismi)
            bu == Penceredekiler(S, SimdikiPencere(bugun, n))
            onceki == Penceredekiler(S, OncekiPencere(bugun, n))
            delta == RSub(ToplamKar(bu), ToplamKar(onceki))
        IN  (bu # {} /\ onceki # {})
            => /\ sonuc.basari
               /\ sonuc.rapor.tur = "donem_karsilastirma"
               /\ sonuc.rapor.alanlar.artti = RLe(R(0), delta)
               /\ RLt(delta, R(0))
                     => sonuc.rapor.alanlar.yamyamlik =
                           (IF tip = "kategori" THEN "ic" ELSE "capraz")

\* a set of rows as a frame, in some order
RECURSIVE Siralanmis(_)
Siralanmis(S) ==
    IF S = {} THEN <<>>
    ELSE LET r == CHOOSE x \in S : TRUE IN <<r>> \o Siralanmis(S \ {r})

SatirKumesi(df) == {df.rows[i] : i \in 1..Len(df.rows)}

\* C17: for window length N the Period Comparator gets as far as its
\* windows, counts a sale in the current window exactly when today - N <=
\* sale date < today and in the previous window exactly when today - 2N <=
\* sale date < today - N; no sale is in both, and a sale dated today or later
\* is in neither
C17_Windows ==
    KarsilastirmaCagrisi =>
        LET tip == sonuc.arg[1]
            n == sonuc.arg[2]
            bugun == sonuc.arg[3]
            S == AnahtarSatislari(tip, sonuc.urun_ismi)
            df == DataFrame({"tarih"}, Siralanmis(S))
            bu == SatirKumesi(BuPeriyot(df, bugun, n))
            onceki == SatirKumesi(OncekiPeriyot(df, bugun, n))
        IN  S # {}
            => /\ sonuc.rapor.tur # "istisna"
               /\ bu = Penceredekiler(S, SimdikiPencere(bugun, n))
               /\ onceki = Penceredekiler(S, OncekiPencere(bugun, n))
               /\ bu \cap onceki = {}
               /\ \A r \in S : Takvim(r.tarih) >= bugun => r \notin bu \cup onceki

\* C18: the Period Comparator fails with no chart and the "no sales for the
\* key" report when the key has no sales at all, and fails with no chart
\* and the warning that both windows need data when the current or the
\* previous window holds no row of the key
C18_ComparatorFailures ==
    KarsilastirmaCagrisi =>
        LET tip == sonuc.arg[1]
            n == sonuc.arg[2]
            bugun == sonuc.arg[3]
            S == AnahtarSatislari(tip, sonuc.urun_ismi)
            bu == Penceredekiler(S, SimdikiPencere(bugun, n))
            onceki == Penceredekiler(S, OncekiPencere(bugun, n))
        IN  /\ S = {} => /\ ~sonuc.basari
                         /\ sonuc.grafik = None
                         /\ sonuc.rapor.tur = "veri_yok"
            /\ (S # {} /\ (bu = {} \/ onceki = {}))
                  => /\ ~sonuc.basari
                     /\ sonuc.grafik = None
                     /\ sonuc.rapor.tur = "uyari_yetersiz_veri"

\* the reports of the Price Simulator that it makes once it has asked for
\* the aggregated sales
ToplamaSonrasi ==
    {"yetersiz_veri", "istisna", "uyari_tek_fiyat", "uyari_artan_talep",
     "simulasyon_sonucu"}

\* C20: for an item with cost > 0 and a candidate price <= 0 the Price
\* Simulator fails with no chart, and the failure is not one it reports
\* after it has aggregated the sales
C20_InvalidPrice ==
    \A u \in urunler :
        (/\ sonuc.fn = SimFn /\ CagriUrunu(u) /\ MaliyetPozitif(u)
         /\ RLe(sonuc.arg, R(0)))
        => /\ ~sonuc.basari
           /\ sonuc.grafik = None
           /\ sonuc.rapor.tur \notin ToplamaSonrasi

----------------------------------------------------------------------------
(* Uploads of sales files, with the response of each upload, among the     *)
(* requests that add and delete items and sales                            *)

YuklemeSatirlari ==
    YonetimSatirlari \cup {ExcelSatiri("Burger", 3, R(75), <<2, 0>>, FALSE)}

YuklemeDosyalari == UNION { [1..n -> YuklemeSatirlari] : n \in 1..MaxDosyaSatiri }

YuklemeGunleri == {1, 2}

YuklemeNext ==
    \/ \E isim \in UrunIsimleri, fiyat \in UrunFiyatlari :
          AddProduct(isim, fiyat) /\ UNCHANGED <<cagrilar, istekler>>
    \/ \E u \in urunler : DeleteProduct(u.id) /\ UNCHANGED <<cagrilar, istekler>>
    \/ \E dosya \in YuklemeDosyalari :
          UploadExcelYanit(dosya) /\ UNCHANGED <<cagrilar, istekler>>
    \/ \E gun \in YuklemeGunleri :
          DeleteSalesByDate(gun) /\ UNCHANGED <<cagrilar, istekler>>

YuklemeSpec == Init /\ [][YuklemeNext]_vars

----------------------------------------------------------------------------
(* Properties of YonetimSpec *)

\* the sales records that a step adds
EklenenKayitlar ==
    {r \in BagToSet(satis_kayitlari') :
        CopiesIn(r, satis_kayitlari') > CopiesIn(r, satis_kayitlari)}

\* a step that changes a recipe line, an ingredient price or an item cost and
\* deletes no item
MaliyetDegistirir ==
    /\ {u.id : u \in urunler'} = {u.id : u \in urunler}
    /\ \/ receteler' # receteler
       \/ hammaddeler' # hammaddeler
       \/ \E u \in urunler, v \in urunler' :
             u.id = v.id /\ u.hesaplanan_maliyet # v.hesaplanan_maliyet

\* the costs stored in the sales records are left alone by a step that
\* changes costs
KayitlarDonuk == MaliyetDegistirir => satis_kayitlari' = satis_kayitlari

C21_AdimBirim ==
    /\ \A r \in EklenenKayitlar :
          \E u \in urunler :
             u.id = r.urun_id /\ r.hesaplanan_maliyet = u.hesaplanan_maliyet
    /\ KayitlarDonuk

\* C21 as the spec words it: the cost stored in a sales record at ingestion
\* is the unit cost of the item at that moment, and no later operation that
\* changes item costs changes a stored sales record
C21_FrozenUnitCost == [][C21_AdimBirim]_vars

C21_Adim ==
    /\ \A r \in EklenenKayitlar :
          \E u \in urunler :
             /\ u.id = r.urun_id
             /\ r.hesaplanan_maliyet = RMul(u.hesaplanan_maliyet, R(r.adet))
             /\ r.hesaplanan_kar = RSub(r.toplam_tutar, r.hesaplanan_maliyet)
    /\ KayitlarDonuk

\* C21, amended: the cost stored in a sales record at ingestion is the unit
\* cost of the item at that moment times the quantity of the record (and the
\* stored profit is total amount minus that cost), and no later operation
\* that changes item costs (add, edit, delete of a recipe line, edit of an
\* ingredient price, recomputation) changes cost, unit price or profit of
\* an existing sales record
C21_FrozenTotalCost == [][C21_Adim]_vars

\* a record of quantity 2 was ingested at unit cost 10 (stored cost 20) and
\* the cost of its item is 40 now
C21_Witness ==
    \E r \in BagToSet(satis_kayitlari), u \in urunler :
       /\ u.id = r.urun_id
       /\ r.adet = 2
       /\ r.hesaplanan_maliyet = R(20)
       /\ u.hesaplanan_maliyet = R(40)

\* a request to delete an ingredient that a recipe line uses changes no
\* ingredient, no recipe line and no item
KullanilanSilinmez ==
    \A id \in IdAdaylari :
       (DeleteMaterial(id) /\ RecetedeKullaniliyor(receteler, id))
          => UNCHANGED <<hammaddeler, receteler, urunler>>

\* every recipe line names an ingredient and an item that exist
KalemlerBagli ==
    \A k \in receteler' :
       /\ \E h \in hammaddeler' : h.id = k.hammadde_id
       /\ \E u \in urunler' : u.id = k.urun_id

C27_Adim == KullanilanSilinmez /\ KalemlerBagli

\* C27: delete_material on an ingredient that a recipe line references
\* deletes nothing and leaves ingredients, recipe lines and item costs
\* unchanged; consequently, after any sequence of ingredient, recipe and
\* product operations, every recipe line references an existing ingredient
\* and an existing item
C27_NoDanglingRecipe == [][C27_Adim]_vars

----------------------------------------------------------------------------
(* Properties of YuklemeSpec *)

\* a row of a file that is to be stored: it parses, names an item by its
\* Excel name and has a quantity of 1 or more
GecerliSatir(satir) ==
    /\ ~satir.bozuk
    /\ satir.Adet >= 1
    /\ \E u \in urunler : u.excel_adi = satir.Urun_Adi

\* how often a row occurs in a file
Kac(satir, dosya) == Cardinality({i \in 1..Len(dosya) : dosya[i] = satir})

\* every sales record has quantity >= 1, an item that exists and unit price
\* = total amount / quantity
KayitlarSaglam ==
    \A r \in BagToSet(satis_kayitlari') :
       /\ r.adet >= 1
       /\ \E u \in urunler' : u.id = r.urun_id
       /\ r.hesaplanan_birim_fiyat = RDiv(r.toplam_tutar, R(r.adet))

\* an upload adds one record for every row to be stored, with the row's
\* quantity, amount and date, and no other record
GecerlilerEklenir ==
    sonuc'.fn = "upload_excel" =>
       LET dosya == sonuc'.arg
           gecerli == {dosya[i] : i \in {j \in 1..Len(dosya) : GecerliSatir(dosya[j])}}
       IN  /\ BagCardinality(satis_kayitlari') - BagCardinality(satis_kayitlari)
                = Cardinality({i \in 1..Len(dosya) : GecerliSatir(dosya[i])})
           /\ \A satir \in gecerli :
                 \E r \in BagToSet(satis_kayitlari') :
                    /\ r.adet = satir.Adet
                    /\ r.toplam_tutar = satir.Toplam_Tutar
                    /\ r.tarih = satir.Tarih
                    /\ CopiesIn(r, satis_kayitlari') - CopiesIn(r, satis_kayitlari)
                          = Kac(satir, dosya)

C23_Adim == KayitlarSaglam /\ GecerlilerEklenir

----------------------------------------------------------------------------
(* Requests served at the same time.  A call of the Price Simulator or of  *)
(* Optimum-Price Search queries the item, then the sales; requests of      *)
(* other workers may be served between the two queries.                    *)

\* one call of an analysis function on the database (uruns, satis)
Cagir(uruns, satis, fn, isim, arg) ==
    CASE fn = MarjFn -> HesaplaHedefMarj(uruns, isim, arg)
      [] fn = SimFn -> SimuleEtFiyatDegisikligi(uruns, satis, isim, arg)
      [] fn = OptFn -> BulOptimumFiyat(uruns, satis, isim, arg)
      [] fn = KarsilastirmaFn ->
            AnalizEtKategoriVeyaGrup(uruns, satis, arg[1], isim, arg[2], arg[3])

\* the calls the workers are asked for
EsCagrilar ==
    { <<MarjFn, "Burger", R(50)>>,
      <<SimFn, "Burger", R(22)>>,
      <<OptFn, "Burger", R(1)>>,
      <<KarsilastirmaFn, "Burgerler", <<"kategori", 1, 3>>>> }

\* the file the workers are sent: sales at two prices
EsDosya ==
    << ExcelSatiri("Burger", 10, R(200), <<1, 0>>, FALSE),
       ExcelSatiri("Burger", 7, R(175), <<1, 0>>, FALSE) >>

EsHammaddeFiyatlari == {R(0), R(5)}

\* the Price Simulator and Optimum-Price Search return before the sales
\* query when there is no item or no cost
ErkenDonus(urun) ==
    \/ urun = None
    \/ urun.hesaplanan_maliyet = None
    \/ RLe(urun.hesaplanan_maliyet, R(0))

\* the table of the one item a call holds
Okunan(urun) == IF urun = None THEN {} ELSE {urun}

\* a worker begins a call: the function queries the item.  The Target-Margin
\* Solver and the Period Comparator return in this step, the other two when
\* they return before the sales query
CagriBasla(p, fn, isim, arg) ==
    /\ cagrilar[p].pc = "bosta"
    /\ LET urun == IF fn = KarsilastirmaFn THEN None ELSE UrunBul(urunler, isim)
           yaninda == {q \in Islemler : cagrilar[q].pc = "urun_okundu"}
           c == [Bosta EXCEPT !.fn = fn, !.urun_ismi = isim, !.arg = arg,
                              !.urun = urun, !.yaninda = yaninda]
       IN  cagrilar' =
              [cagrilar EXCEPT ![p] =
                  IF fn \in {SimFn, OptFn} /\ ~ErkenDonus(urun)
                  THEN [c EXCEPT !.pc = "urun_okundu"]
                  ELSE [c EXCEPT !.pc = "bitti",
                                 !.sonuc = Cagir(Okunan(urun), EmptyBag, fn, isim, arg)]]
    /\ UNCHANGED <<hammaddeler, urunler, receteler, satis_kayitlari, sonuc, istekler>>

\* a call that queries the item again after the sales
CagriBitirTazeOkur(p) ==
    LET c == cagrilar[p]
    IN  /\ c.pc = "urun_okundu"
        /\ cagrilar' =
              [cagrilar EXCEPT ![p] =
                  [c EXCEPT !.pc = "bitti", !.satis = satis_kayitlari,
                            !.sonuc = Cagir(urunler, satis_kayitlari,
                                            c.fn, c.urun_ismi, c.arg)]]
        /\ UNCHANGED <<hammaddeler, urunler, receteler, satis_kayitlari, sonuc, istekler>>

\* a call that saves the value it was asked about as the item's price
CagriBitirYazar(p) ==
    LET c == cagrilar[p]
    IN  /\ c.pc = "urun_okundu"
        /\ cagrilar' =
              [cagrilar EXCEPT ![p] =
                  [c EXCEPT !.pc = "bitti", !.satis = satis_kayitlari,
                            !.sonuc = Cagir(Okunan(c.urun), satis_kayitlari,
                                            c.fn, c.urun_ismi, c.arg)]]
        /\ urunler' = { IF u.id = c.urun.id
                        THEN [u EXCEPT !.mevcut_satis_fiyati = c.arg] ELSE u
                        : u \in urunler }
        /\ UNCHANGED <<hammaddeler, receteler, satis_kayitlari, sonuc, istekler>>

\* the call goes on: the function queries the sales, computes from them and
\* from the item it holds, and returns
CagriBitir(p) ==
    LET c == cagrilar[p]
    IN  /\ c.pc = "urun_okundu"
        /\ cagrilar' =
              [cagrilar EXCEPT ![p] =
                  [c EXCEPT !.pc = "bitti", !.satis = satis_kayitlari,
                            !.sonuc = Cagir(Okunan(c.urun), satis_kayitlari,
                                            c.fn, c.urun_ismi, c.arg)]]
        /\ UNCHANGED <<hammaddeler, urunler, receteler, satis_kayitlari, sonuc, istekler>>

\* the response is sent; the worker is free again
CagriDon(p) ==
    /\ cagrilar[p].pc = "bitti"
    /\ cagrilar' = [cagrilar EXCEPT ![p] = Bosta]
    /\ UNCHANGED <<hammaddeler, urunler, receteler, satis_kayitlari, sonuc, istekler>>

\* a request that changes the database is committed while calls are
\* between their queries
Isaretle ==
    cagrilar' =
       IF <<hammaddeler', urunler', receteler', satis_kayitlari'>>
             = <<hammaddeler, urunler, receteler, satis_kayitlari>>
       THEN cagrilar
       ELSE [p \in Islemler |->
               IF cagrilar[p].pc = "urun_okundu"
               THEN [cagrilar[p] EXCEPT !.yazildi = TRUE]
               ELSE cagrilar[p]]

EsNext ==
    \/ \E isim \in UrunIsimleri, fiyat \in UrunFiyatlari :
          AddProduct(isim, fiyat) /\ Isaretle /\ UNCHANGED istekler
    \/ \E isim \in HammaddeIsimleri, fiyat \in EsHammaddeFiyatlari :
          AddMaterial(isim, fiyat) /\ Isaretle /\ UNCHANGED istekler
    \/ \E h \in hammaddeler, fiyat \in EsHammaddeFiyatlari :
          EditMaterial(h.id, fiyat) /\ Isaretle /\ UNCHANGED istekler
    \/ \E u \in urunler, h \in hammaddeler, miktar \in Miktarlar :
          AddRecipe(u.id, h.id, miktar) /\ Isaretle /\ UNCHANGED istekler
    \/ UploadExcel(EsDosya) /\ Isaretle /\ UNCHANGED istekler
    \/ \E p \in Islemler, c \in EsCagrilar : CagriBasla(p, c[1], c[2], c[3])
    \/ \E p \in Islemler : CagriBitir(p)
    \/ \E p \in Islemler : CagriDon(p)

EsZamanliSpec == Init /\ [][EsNext]_vars

----------------------------------------------------------------------------
(* Properties of EsZamanliSpec *)

\* worker p takes a step of an analysis call
CagriAdimi(p) == cagrilar'[p].pc # cagrilar[p].pc

\* the function of worker p returns in this step
CagriBiter(p) == cagrilar[p].pc # "bitti" /\ cagrilar'[p].pc = "bitti"

\* C13, one step: a step of an analysis call, whether the call succeeds or
\* fails, leaves every item, recipe, ingredient and sales record as it is and
\* leaves the calls of the other workers as they are; and a call during
\* which only analysis calls were served returns what the function returns
\* when it is called alone on the database
C13_Adim ==
    \A p \in Islemler :
        /\ CagriAdimi(p)
            => /\ UNCHANGED <<hammaddeler, urunler, receteler, satis_kayitlari>>
               /\ \A q \in Islemler \ {p} : cagrilar'[q] = cagrilar[q]
        /\ (CagriBiter(p) /\ ~cagrilar'[p].yazildi)
            => cagrilar'[p].sonuc =
                  Cagir(urunler, satis_kayitlari,
                        cagrilar'[p].fn, cagrilar'[p].urun_ismi, cagrilar'[p].arg)

\* C13: every step of every behaviour is such a step
C13_AnalysisReadsOnly == [][C13_Adim]_vars

\* C13 witness: a call of the Price Simulator that began while the other
\* worker was between its queries has queried the sales and returned, and
\* no change was committed meanwhile
C13_Witness ==
    \E p \in Islemler :
        /\ cagrilar[p].pc = "bitti"
        /\ cagrilar[p].fn = SimFn
        /\ cagrilar[p].yaninda # {}
        /\ ~cagrilar[p].yazildi
        /\ cagrilar[p].sonuc.rapor.tur = "istisna"

----------------------------------------------------------------------------
(* Recipe and ingredient requests served at the same time.  A request is   *)
(* the steps of its handler between which another worker's request can     *)
(* commit: the query of the row it is about, the commit of its change, the *)
(* queries of guncelle_tum_urun_maliyetleri and the commit of the costs.   *)
(* Each worker has a session of its own; a commit is seen by every query   *)
(* that comes after it.                                                    *)

AddRecipeFn == "add_recipe"
EditRecipeFn == "edit_recipe"
DeleteRecipeFn == "delete_recipe"
EditMaterialFn == "edit_material"

\* existing_recipe of add_recipe: the first line of the pair, as the set of
\* its id, or no line
MevcutKalem(recs, urun_id, hammadde_id) ==
    LET es == {k \in recs : k.urun_id = urun_id /\ k.hammadde_id = hammadde_id}
    IN  {k.id : k \in {x \in es : \A j \in es : x.id <= j.id}}

\* the first query of a handler: the row it has found, as the set of its id.
\* arg is <<urun_id, hammadde_id, miktar>> of add_recipe, <<id, miktar>> of
\* edit_recipe, <<id>> of delete_recipe, <<id, fiyat>> of edit_material
IlkSorgu(fn, arg) ==
    CASE fn = AddRecipeFn -> MevcutKalem(receteler, arg[1], arg[2])
      [] fn \in {EditRecipeFn, DeleteRecipeFn} ->
            {k.id : k \in {x \in receteler : x.id = arg[1]}}
      [] fn = EditMaterialFn ->
            {h.id : h \in {x \in hammaddeler : x.id = arg[1]}}

\* a worker takes a request and its handler queries the row it is about.
\* edit_recipe, delete_recipe and edit_material return at once when there is
\* no such row
IstekBasla(p, fn, arg) ==
    /\ istekler[p].pc = "bosta"
    /\ fn # AddRecipeFn => IlkSorgu(fn, arg) # {}
    /\ istekler' = [istekler EXCEPT ![p] =
                       [pc |-> "okundu", fn |-> fn, arg |-> arg,
                        okunan |-> IlkSorgu(fn, arg)]]
    /\ UNCHANGED <<hammaddeler, urunler, receteler, satis_kayitlari, sonuc, cagrilar>>

\* the UPDATE of the flush finds no row: the row that the handler holds was
\* deleted by a request committed since the query (StaleDataError)
SatirGitmis(i) ==
    i.fn \in {AddRecipeFn, EditRecipeFn}
       /\ \E id \in i.okunan : Bul(receteler, id) = None

\* the recipe lines after the commit of a handler
YazilanReceteler(i) ==
    CASE i.fn = AddRecipeFn ->
            IF i.okunan # {}
            THEN { IF k.id \in i.okunan THEN [k EXCEPT !.miktar = i.arg[3]] ELSE k
                   : k \in receteler }
            ELSE receteler \cup {Recete(NextId(receteler), i.arg[1], i.arg[2], i.arg[3])}
      [] i.fn = EditRecipeFn ->
            { IF k.id \in i.okunan THEN [k EXCEPT !.miktar = i.arg[2]] ELSE k
              : k \in receteler }
      [] i.fn = DeleteRecipeFn -> {k \in receteler : k.id \notin i.okunan}
      [] OTHER -> receteler

\* the ingredients after the commit of a handler
YazilanHammaddeler(i) ==
    IF i.fn = EditMaterialFn
    THEN { IF h.id \in i.okunan THEN [h EXCEPT !.maliyet_fiyati = i.arg[2]] ELSE h
           : h \in hammaddeler }
    ELSE hammaddeler

\* the handler commits its change (db.session.commit())
IstekIsle(p) ==
    LET i == istekler[p]
    IN  /\ i.pc = "okundu"
        /\ ~SatirGitmis(i)
        /\ (i.fn = AddRecipeFn /\ i.okunan = {}) => NextId(receteler) \in ReceteIdleri
        /\ receteler' = YazilanReceteler(i)
        /\ hammaddeler' = YazilanHammaddeler(i)
        /\ istekler' = [istekler EXCEPT ![p] = [i EXCEPT !.pc = "islendi"]]
        /\ UNCHANGED <<urunler, satis_kayitlari, sonuc, cagrilar>>

\* the commit raises: the except branch of the handler rolls back and the
\* request ends with no recomputation
IstekIptal(p) ==
    LET i == istekler[p]
    IN  /\ i.pc = "okundu"
        /\ SatirGitmis(i)
        /\ istekler' = [istekler EXCEPT ![p] = IstekYok]
        /\ UNCHANGED <<hammaddeler, urunler, receteler, satis_kayitlari, sonuc, cagrilar>>

\* guncelle_tum_urun_maliyetleri up to its commit: for every item the cost
\* it was loaded with and the cost computed from the recipe lines and the
\* ingredient prices that the queries find
IstekHesapla(p) ==
    LET i == istekler[p]
        yeni == GuncelleTumUrunMaliyetleri(urunler, receteler, hammaddeler)
    IN  /\ i.pc = "islendi"
        /\ istekler' = [istekler EXCEPT ![p] =
               [i EXCEPT !.pc = "hesaplandi",
                         !.okunan = {<<u.id, u.hesaplanan_maliyet,
                                       (CHOOSE v \in yeni : v.id = u.id).hesaplanan_maliyet>>
                                     : u \in urunler}]]
        /\ UNCHANGED <<hammaddeler, urunler, receteler, satis_kayitlari, sonuc, cagrilar>>

\* the commit of guncelle_tum_urun_maliyetleri: the flush writes the cost of
\* every item whose computed cost differs from the one it was loaded with
IstekKaydet(p) ==
    LET i == istekler[p]
    IN  /\ i.pc = "hesaplandi"
        /\ urunler' =
              { IF \E t \in i.okunan : t[1] = u.id /\ t[2] # t[3]
                THEN [u EXCEPT !.hesaplanan_maliyet =
                         (CHOOSE t \in i.okunan : t[1] = u.id)[3]]
                ELSE u : u \in urunler }
        /\ istekler' = [istekler EXCEPT ![p] = IstekYok]
        /\ UNCHANGED <<hammaddeler, receteler, satis_kayitlari, sonuc, cagrilar>>

\* the requests that the workers are given
YarisIstekleri ==
    ({AddRecipeFn} \X {<<u.id, h.id, m>> :
                          u \in urunler, h \in hammaddeler, m \in YonetimMiktarlari})
    \cup ({EditRecipeFn} \X {<<k.id, m>> : k \in receteler, m \in YonetimMiktarlari})
    \cup ({DeleteRecipeFn} \X {<<k.id>> : k \in receteler})
    \cup ({EditMaterialFn} \X {<<h.id, f>> : h \in hammaddeler, f \in HammaddeFiyatlari})

YarisNext ==
    \/ \E isim \in UrunIsimleri, fiyat \in UrunFiyatlari :
          AddProduct(isim, fiyat) /\ UNCHANGED <<cagrilar, istekler>>
    \/ \E isim \in HammaddeIsimleri, fiyat \in HammaddeFiyatlari :
          AddMaterial(isim, fiyat) /\ UNCHANGED <<cagrilar, istekler>>
    \/ \E p \in Islemler, c \in YarisIstekleri : IstekBasla(p, c[1], c[2])
    \/ \E p \in Islemler : IstekIsle(p)
    \/ \E p \in Islemler : IstekIptal(p)
    \/ \E p \in Islemler : IstekHesapla(p)
    \/ \E p \in Islemler : IstekKaydet(p)

YarisSpec == Init /\ [][YarisNext]_vars

----------------------------------------------------------------------------
(* Properties of YarisSpec *)

HicIstekYok == \A p \in Islemler : istekler[p].pc = "bosta"

\* C24: whenever no recipe or ingredient request is in progress, the stored
\* cost of every item is the sum over its recipe lines of quantity times
\* the current price of the ingredient, rounded to 2 decimals, whatever the
\* order and the interleaving of add_recipe, edit_recipe, delete_recipe and
\* edit_material requests
C24_CostsMatchRecipes ==
    HicIstekYok =>
       \A u \in urunler :
          u.hesaplanan_maliyet =
             Round2(ReceteToplami({k \in receteler : k.urun_id = u.id}, hammaddeler))

\* C25: after any sequence and interleaving of add_recipe requests there is
\* at most one recipe line for an item and an ingredient
C25_OneLinePerPair ==
    \A k \in receteler, j \in receteler :
       (k.urun_id = j.urun_id /\ k.hammadde_id = j.hammadde_id) => k = j

====
